---------------------------- MODULE Spec2Model ----------------------------
(***************************************************************************)
(* Model of the crucible route search of 2023/17 (src/2023/17/rust/src/    *)
(* path.rs): City::navigate, its helpers valid_moves / can_move, the       *)
(* Candidate ordering of the frontier and reconstruct_path.                *)
(*                                                                         *)
(* A behaviour is one call of navigate: Seed (lines 142-171), then one     *)
(* Step per iteration of the `while let` loop (lines 173-206), then        *)
(* Return (line 208 and reconstruct_path).  A failing unwrap() is a        *)
(* transition to pc = "panicked" that records the line of the unwrap.      *)
(***************************************************************************)
EXTENDS Integers, Sequences, FiniteSets, Bags, TLC

VARIABLES
    city,        \* the City built by from_stream: blocks, width, height
    start,       \* navigate's argument start
    goal,        \* navigate's argument goal
    crucible,    \* navigate's argument crucible: "Small" or "Ultra"
    tie,         \* how the BinaryHeap orders candidates of equal distance
    pc,          \* "navigate", "loop", "returned", "panicked", "diverged"
    open_set,    \* BinaryHeap<Reverse<Candidate>>, a bag of candidates
    queued,      \* HashSet<State>
    came_from,   \* HashMap<State, State>
    losses,      \* HashMap<State, u32>
    best_state,  \* Option<State>: {} is None, {s} is Some(s)
    best_loss,   \* u32
    path,        \* the Vec<&Block> navigate returns
    panic_line,  \* line of the unwrap() that panicked, 0 when none did
    least_cost   \* not program state: the least costs of the legal routes
                 \* of this call, which the claims compare a result with

vars == <<city, start, goal, crucible, tie, pc, open_set, queued, came_from,
          losses, best_state, best_loss, path, panic_line, least_cost>>

---------------------------------------------------------------------------
(* Bounds of the inputs.                                                   *)

\* Cells of the exhaustively enumerated grids cost 0..MaxHeat.
MaxHeat == 1

\* u32::MAX, the initial best_loss and the loss of a state without an entry.
\* TLC's integers are 32-bit signed, so the largest one stands for it; every
\* loss of the model is a sum of at most a few thousand digits.
U32_MAX == 2147483647

---------------------------------------------------------------------------
(* Values.                                                                 *)

Direction == {"North", "East", "South", "West"}

Crucible == {"Small", "Ultra"}

Position(x, y) == [x |-> x, y |-> y]

State(pos, dir, steps) == [pos |-> pos, dir |-> dir, steps |-> steps]

Block(heat_loss, pos) == [heat_loss |-> heat_loss, pos |-> pos]

Candidate(state, distance) == [state |-> state, distance |-> distance]

None == {}

Some(v) == {v}

unwrap(opt) == CHOOSE v \in opt : TRUE

EmptyMap == [k \in {} |-> k]

\* HashMap::insert: the entry of key k is replaced or created.
insert(map, k, v) == (k :> v) @@ map

\* i32::abs_diff
abs_diff(a, b) == IF a >= b THEN a - b ELSE b - a

\* Position::mv
Position_mv(self, dir) ==
    CASE dir = "North" -> Position(self.x, self.y - 1)
      [] dir = "East"  -> Position(self.x + 1, self.y)
      [] dir = "South" -> Position(self.x, self.y + 1)
      [] dir = "West"  -> Position(self.x - 1, self.y)

\* Position::l1_distance
l1_distance(self, p2) == abs_diff(self.x, p2.x) + abs_diff(self.y, p2.y)

\* mv that counts a run from 0 after a turn.
State_mv_restart_at_zero(self, dir) ==
    State(Position_mv(self.pos, dir), dir,
          IF self.dir = dir THEN self.steps + 1 ELSE 0)

\* State::mv
State_mv(self, dir) ==
    State(Position_mv(self.pos, dir), dir,
          IF self.dir = dir THEN self.steps + 1 ELSE 1)

---------------------------------------------------------------------------
(* City::from_stream on well-formed input: lines is the sequence of the    *)
(* text's lines, each the sequence of its digits (char::to_digit).         *)

from_stream(lines) ==
    LET positions == {Position(x, y) : x \in 0..(Len(lines[1]) - 1),
                                       y \in 0..(Len(lines) - 1)}
    IN  [blocks |-> [p \in positions |->
                        Block(lines[p.y + 1][p.x + 1], p)],
         width  |-> Len(lines[1]),
         height |-> Len(lines)]

\* from_stream returns Ok: the city is not empty and the grid is even.
well_formed(lines) ==
    /\ Len(lines) > 0
    /\ Len(lines[1]) > 0
    /\ \A y \in 1..Len(lines) : Len(lines[y]) = Len(lines[1])

---------------------------------------------------------------------------
(* The movement rules.                                                     *)

\* can_move with the Ultra crucible turning one move early.
can_move_early_turn(self, curr, dir, cr) ==
    LET in_bounds ==
            CASE dir = "North" -> curr.pos.y > 0
              [] dir = "East"  -> curr.pos.x < self.width - 1
              [] dir = "South" -> curr.pos.y < self.height - 1
              [] dir = "West"  -> curr.pos.x > 0
        steps_ok ==
            CASE cr = "Small" -> curr.dir # dir \/ curr.steps < 3
              [] cr = "Ultra" ->
                    \/ curr.steps = 0
                    \/ (curr.dir # dir /\ curr.steps >= 3)
                    \/ (curr.dir = dir /\ curr.steps < 10)
    IN  in_bounds /\ steps_ok

\* can_move with the runs one move too long: <= for <.
can_move_long_run(self, curr, dir, cr) ==
    LET in_bounds ==
            CASE dir = "North" -> curr.pos.y > 0
              [] dir = "East"  -> curr.pos.x < self.width - 1
              [] dir = "South" -> curr.pos.y < self.height - 1
              [] dir = "West"  -> curr.pos.x > 0
        steps_ok ==
            CASE cr = "Small" -> curr.dir # dir \/ curr.steps <= 3
              [] cr = "Ultra" ->
                    \/ curr.steps = 0
                    \/ (curr.dir # dir /\ curr.steps >= 4)
                    \/ (curr.dir = dir /\ curr.steps <= 10)
    IN  in_bounds /\ steps_ok

\* can_move with an edge one block too far: the far edges compared with
\* width and height, not width - 1 and height - 1.
can_move_past_edge(self, curr, dir, cr) ==
    LET in_bounds ==
            CASE dir = "North" -> curr.pos.y > 0
              [] dir = "East"  -> curr.pos.x < self.width
              [] dir = "South" -> curr.pos.y < self.height
              [] dir = "West"  -> curr.pos.x > 0
        steps_ok ==
            CASE cr = "Small" -> curr.dir # dir \/ curr.steps < 3
              [] cr = "Ultra" ->
                    \/ curr.steps = 0
                    \/ (curr.dir # dir /\ curr.steps >= 4)
                    \/ (curr.dir = dir /\ curr.steps < 10)
    IN  in_bounds /\ steps_ok

\* City::can_move
can_move(self, curr, dir, cr) ==
    LET in_bounds ==
            CASE dir = "North" -> curr.pos.y > 0
              [] dir = "East"  -> curr.pos.x < self.width - 1
              [] dir = "South" -> curr.pos.y < self.height - 1
              [] dir = "West"  -> curr.pos.x > 0
        steps_ok ==
            CASE cr = "Small" -> curr.dir # dir \/ curr.steps < 3
              [] cr = "Ultra" ->
                    \/ curr.steps = 0
                    \/ (curr.dir # dir /\ curr.steps >= 4)
                    \/ (curr.dir = dir /\ curr.steps < 10)
    IN  in_bounds /\ steps_ok

\* candidates with the row of West copied from the row of North: East, the
\* way back, is tried from a West state.
candidates_with_way_back(dir) ==
    CASE dir = "North" -> <<"North", "East", "West">>
      [] dir = "East"  -> <<"North", "East", "South">>
      [] dir = "South" -> <<"East", "South", "West">>
      [] dir = "West"  -> <<"North", "East", "West">>

\* The candidates array of valid_moves: the directions tried from curr.dir.
candidates(dir) ==
    CASE dir = "North" -> <<"North", "East", "West">>
      [] dir = "East"  -> <<"North", "East", "South">>
      [] dir = "South" -> <<"East", "South", "West">>
      [] dir = "West"  -> <<"North", "South", "West">>

RECURSIVE push_moves(_, _, _, _, _)
\* The for loop of valid_moves from candidate i on: next grows in order.
push_moves(self, curr, cr, i, next) ==
    IF i > Len(candidates(curr.dir)) THEN next
    ELSE LET dir == candidates(curr.dir)[i]
         IN  push_moves(self, curr, cr, i + 1,
                        IF can_move(self, curr, dir, cr)
                        THEN Append(next, State_mv(curr, dir))
                        ELSE next)

\* City::valid_moves
valid_moves(self, curr, cr) == push_moves(self, curr, cr, 1, <<>>)

---------------------------------------------------------------------------
(* The frontier: BinaryHeap<Reverse<Candidate>>.  Candidate's Ord compares *)
(* the distance only, so pop() yields a candidate of least distance; which *)
(* one among equals is the heap's business: any of them (tie = "any"), or  *)
(* the one a fixed order of the states puts first ("lo") or last ("hi").   *)

dir_index(dir) ==
    CASE dir = "North" -> 0 [] dir = "East" -> 1
      [] dir = "South" -> 2 [] dir = "West" -> 3

\* A total order of the states of one city, for the fixed tie orders.
tie_key(self, s) ==
    (((s.pos.y * self.width) + s.pos.x) * 4 + dir_index(s.dir)) * 11 + s.steps

\* The least element of a non-empty set of numbers.
least(nums) == CHOOSE n \in nums : \A k \in nums : n <= k

\* heap_top of a heap of Candidate without Reverse: BinaryHeap is a max-heap
\* and pops a candidate of greatest distance.
heap_top_farthest(self, heap, order) ==
    LET all == BagToSet(heap)
        farthest == -least({-d.distance : d \in all})
        top == {c \in all : c.distance = farthest}
        keys == {tie_key(self, c.state) : c \in top}
        lo == least(keys)
        hi == -least({-k : k \in keys})
    IN  CASE order = "any" -> top
          [] order = "lo" -> {c \in top : tie_key(self, c.state) = lo}
          [] order = "hi" -> {c \in top : tie_key(self, c.state) = hi}

\* The candidates BinaryHeap::pop may return: those that compare least
\* under Candidate's Ord (lines 287-291), which reads the distance only.
heap_top(self, heap, order) ==
    LET all == BagToSet(heap)
        nearest == least({d.distance : d \in all})
        top == {c \in all : c.distance = nearest}
        keys == {tie_key(self, c.state) : c \in top}
        lo == least(keys)
        hi == -least({-k : k \in keys})
    IN  CASE order = "any" -> top
          [] order = "lo" -> {c \in top : tie_key(self, c.state) = lo}
          [] order = "hi" -> {c \in top : tie_key(self, c.state) = hi}

\* BinaryHeap::push
heap_push(heap, c) == heap (+) SetToBag({c})

\* The heap after pop() returned c.
heap_remove(heap, c) == heap (-) SetToBag({c})

RECURSIVE collect_heap(_, _, _)
\* valid_start_moves.iter().map(..).collect() into the heap, from index i.
collect_heap(moves, to, i) ==
    IF i > Len(moves) THEN EmptyBag
    ELSE heap_push(collect_heap(moves, to, i + 1),
                   Candidate(moves[i], l1_distance(moves[i].pos, to)))

\* The elements of a Vec, as collected into a HashSet.
elements(vec) == {vec[i] : i \in 1..Len(vec)}

---------------------------------------------------------------------------
(* navigate, lines 142-171: the first moves seed the frontier.             *)

\* The synthetic state before the first move.
pre_start(from) == State(from, "South", 0)

Seed ==
    /\ pc = "navigate"
    /\ LET valid_start_moves == valid_moves(city, pre_start(start), crucible)
       IN  IF \E s \in elements(valid_start_moves) :
                    s.pos \notin DOMAIN city.blocks
           THEN /\ pc' = "panicked"
                /\ panic_line' = 167
                /\ UNCHANGED <<open_set, queued, came_from, losses,
                               best_state, best_loss>>
           ELSE /\ open_set' = collect_heap(valid_start_moves, goal, 1)
                /\ queued' = elements(valid_start_moves)
                /\ came_from' = EmptyMap
                /\ losses' = [s \in elements(valid_start_moves) |->
                                 city.blocks[s.pos].heat_loss]
                /\ best_state' = None
                /\ best_loss' = U32_MAX
                /\ pc' = "loop"
                /\ panic_line' = 0
    /\ UNCHANGED <<city, start, goal, crucible, tie, path, least_cost>>

---------------------------------------------------------------------------
(* navigate, lines 173-206: one iteration of the search loop.              *)

\* accepts that keeps the first terminal state popped.
accepts_first(state, curr_loss, bound, to, cr) ==
    /\ state.pos = to
    /\ bound = U32_MAX
    /\ (cr = "Small" \/ state.steps >= 4)

\* accepts without the Ultra crucible's run of 4 before it stops.
accepts_any_run(state, curr_loss, bound, to, cr) ==
    state.pos = to /\ curr_loss <= bound

\* Lines 178-180: the popped state is recorded as the best terminal state.
accepts(state, curr_loss, bound, to, cr) ==
    /\ state.pos = to
    /\ curr_loss <= bound
    /\ (cr = "Small" \/ state.steps >= 4)

\* improves for states seen for the first time only.
improves_unseen(neighbor_loss, bound, prev_neighbor_loss) ==
    neighbor_loss < bound /\ prev_neighbor_loss = U32_MAX

\* improves that also takes a loss equal to the recorded one: <= for <.
improves_or_equal(neighbor_loss, bound, prev_neighbor_loss) ==
    neighbor_loss < bound /\ neighbor_loss <= prev_neighbor_loss

\* improves without the comparison with the bound.
improves_below_prev(neighbor_loss, bound, prev_neighbor_loss) ==
    neighbor_loss < prev_neighbor_loss

\* improves without the comparison with the recorded loss.
improves_below_bound(neighbor_loss, bound, prev_neighbor_loss) ==
    neighbor_loss < bound

\* Line 192: the relaxation guard.
improves(neighbor_loss, bound, prev_neighbor_loss) ==
    neighbor_loss < bound /\ neighbor_loss < prev_neighbor_loss

\* enqueue without the test of line 196: every relaxed neighbour is pushed.
enqueue_always(heap, pending, neighbor, to) ==
    [open_set |-> heap_push(heap,
                     Candidate(neighbor, l1_distance(neighbor.pos, to))),
     queued   |-> pending \cup {neighbor}]

\* enqueue that marks the neighbour as pending and pushes nothing.
enqueue_mark_only(heap, pending, neighbor, to) ==
    [open_set |-> heap, queued |-> pending \cup {neighbor}]

\* Lines 196-203: a relaxed neighbour is pushed unless it is pending.
enqueue(heap, pending, neighbor, to) ==
    IF neighbor \notin pending
    THEN [open_set |-> heap_push(heap,
                          Candidate(neighbor, l1_distance(neighbor.pos, to))),
          queued   |-> pending \cup {neighbor}]
    ELSE [open_set |-> heap, queued |-> pending]

\* relax that keeps the predecessor a state already has.
relax_keep_link(m, neighbor, curr_state, curr_loss, bound, self, to) ==
    LET neighbor_loss == curr_loss + self.blocks[neighbor.pos].heat_loss
        prev_neighbor_loss ==
            IF neighbor \in DOMAIN m.losses THEN m.losses[neighbor]
            ELSE U32_MAX
    IN  IF neighbor_loss < bound /\ neighbor_loss < prev_neighbor_loss
        THEN LET q == enqueue(m.open_set, m.queued, neighbor, to)
             IN  [came_from |-> IF neighbor \in DOMAIN m.came_from
                                THEN m.came_from
                                ELSE insert(m.came_from, neighbor, curr_state),
                  losses    |-> insert(m.losses, neighbor, neighbor_loss),
                  open_set  |-> q.open_set,
                  queued    |-> q.queued]
        ELSE m

\* relax that charges nothing for the block entered.
relax_without_heat_loss(m, neighbor, curr_state, curr_loss, bound, self, to) ==
    LET neighbor_loss == curr_loss
        prev_neighbor_loss ==
            IF neighbor \in DOMAIN m.losses THEN m.losses[neighbor]
            ELSE U32_MAX
    IN  IF improves(neighbor_loss, bound, prev_neighbor_loss)
        THEN LET q == enqueue(m.open_set, m.queued, neighbor, to)
             IN  [came_from |-> insert(m.came_from, neighbor, curr_state),
                  losses    |-> insert(m.losses, neighbor, neighbor_loss),
                  open_set  |-> q.open_set,
                  queued    |-> q.queued]
        ELSE m

\* Lines 189-204: the body of the for loop for one neighbour; m holds the
\* four collections.
relax(m, neighbor, curr_state, curr_loss, bound, self, to) ==
    LET neighbor_loss == curr_loss + self.blocks[neighbor.pos].heat_loss
        prev_neighbor_loss ==
            IF neighbor \in DOMAIN m.losses THEN m.losses[neighbor]
            ELSE U32_MAX
    IN  IF improves(neighbor_loss, bound, prev_neighbor_loss)
        THEN LET q == enqueue(m.open_set, m.queued, neighbor, to)
             IN  [came_from |-> insert(m.came_from, neighbor, curr_state),
                  losses    |-> insert(m.losses, neighbor, neighbor_loss),
                  open_set  |-> q.open_set,
                  queued    |-> q.queued]
        ELSE m

RECURSIVE relax_all(_, _, _, _, _, _, _, _)
\* Lines 188-205: the for loop over valid_moves, from neighbour i on.
relax_all(m, neighbors, i, curr_state, curr_loss, bound, self, to) ==
    IF i > Len(neighbors) THEN m
    ELSE relax_all(relax(m, neighbors[i], curr_state, curr_loss, bound,
                         self, to),
                   neighbors, i + 1, curr_state, curr_loss, bound, self, to)

Step ==
    /\ pc = "loop"
    /\ open_set # EmptyBag
    /\ \E curr \in heap_top(city, open_set, tie) :
        LET neighbors == valid_moves(city, curr.state, crucible)
        IN  IF curr.state \notin DOMAIN losses
            THEN /\ pc' = "panicked"
                 /\ panic_line' = 176
                 /\ open_set' = heap_remove(open_set, curr)
                 /\ queued' = queued \ {curr.state}
                 /\ UNCHANGED <<came_from, losses, best_state, best_loss>>
            ELSE LET curr_loss == losses[curr.state]
                     hit == accepts(curr.state, curr_loss, best_loss, goal,
                                    crucible)
                     bound == IF hit THEN curr_loss ELSE best_loss
                     m0 == [open_set  |-> heap_remove(open_set, curr),
                            queued    |-> queued \ {curr.state},
                            came_from |-> came_from,
                            losses    |-> losses]
                 IN  /\ best_state' =
                            IF hit THEN Some(curr.state) ELSE best_state
                     /\ best_loss' = bound
                     /\ IF \E n \in elements(neighbors) :
                                n.pos \notin DOMAIN city.blocks
                        THEN /\ pc' = "panicked"
                             /\ panic_line' = 189
                             /\ open_set' = m0.open_set
                             /\ queued' = m0.queued
                             /\ UNCHANGED <<came_from, losses>>
                        ELSE LET m == relax_all(m0, neighbors, 1, curr.state,
                                                curr_loss, bound, city, goal)
                             IN  /\ open_set' = m.open_set
                                 /\ queued' = m.queued
                                 /\ came_from' = m.came_from
                                 /\ losses' = m.losses
                                 /\ UNCHANGED <<pc, panic_line>>
    /\ UNCHANGED <<city, start, goal, crucible, tie, path, least_cost>>

---------------------------------------------------------------------------
(* navigate, line 208, and reconstruct_path.                               *)

RECURSIVE reversed(_)
\* path.into_iter().rev().collect()
reversed(seq) ==
    IF seq = <<>> THEN <<>>
    ELSE Append(reversed(Tail(seq)), Head(seq))

\* Whether the while loop of reconstruct_path from last never ends: the
\* walk outlives the links there are, so it is on a cycle of them.
walk_cycles(links, last) ==
    LET RECURSIVE run(_, _)
        run(c, fuel) == IF c \notin DOMAIN links THEN FALSE
                        ELSE IF fuel = 0 THEN TRUE
                        ELSE run(links[c], fuel - 1)
    IN  run(last, Cardinality(DOMAIN links))

\* The states the walk of reconstruct_path visits, last first.
RECURSIVE chain(_, _, _)
chain(links, c, fuel) ==
    IF c \notin DOMAIN links \/ fuel = 0 THEN <<c>>
    ELSE <<c>> \o chain(links, links[c], fuel - 1)

\* reconstruct_path that also pushes the block the first move left.
reconstruct_path_from_origin(self, links, last) ==
    LET states == chain(links, last, Cardinality(DOMAIN links))
        first == states[Len(states)]
        origin == CASE first.dir = "North" -> Position(first.pos.x, first.pos.y + 1)
                    [] first.dir = "East"  -> Position(first.pos.x - 1, first.pos.y)
                    [] first.dir = "South" -> Position(first.pos.x, first.pos.y - 1)
                    [] first.dir = "West"  -> Position(first.pos.x + 1, first.pos.y)
    IN  <<self.blocks[origin]>> \o
        reversed([i \in 1..Len(states) |-> self.blocks[states[i].pos]])

\* reconstruct_path whose vector starts empty: the block of last is not
\* pushed.
reconstruct_path_without_last(self, links, last) ==
    LET states == Tail(chain(links, last, Cardinality(DOMAIN links)))
    IN  reversed([i \in 1..Len(states) |-> self.blocks[states[i].pos]])

\* City::reconstruct_path, for a walk that ends.
reconstruct_path(self, links, last) ==
    LET states == chain(links, last, Cardinality(DOMAIN links))
    IN  reversed([i \in 1..Len(states) |-> self.blocks[states[i].pos]])

Return ==
    /\ pc = "loop"
    /\ open_set = EmptyBag
    /\ IF best_state = None
       THEN /\ pc' = "panicked"
            /\ panic_line' = 208
            /\ path' = path
       ELSE IF walk_cycles(came_from, unwrap(best_state))
       THEN /\ pc' = "diverged"
            /\ UNCHANGED <<panic_line, path>>
       ELSE /\ pc' = "returned"
            /\ path' = reconstruct_path(city, came_from, unwrap(best_state))
            /\ UNCHANGED panic_line
    /\ UNCHANGED <<city, start, goal, crucible, tie, open_set, queued,
                   came_from, losses, best_state, best_loss, least_cost>>

\* main.rs line 48 and the tests: path.iter().map(|b| b.heat_loss).sum()
RECURSIVE total_loss(_)
total_loss(blocks) ==
    IF blocks = <<>> THEN 0
    ELSE Head(blocks).heat_loss + total_loss(Tail(blocks))

---------------------------------------------------------------------------
(* Legal routes, stated on their own.  A route is a sequence of straight   *)
(* runs: each run is 1..3 (Small) or 4..10 (Ultra) moves long, and each    *)
(* run after the first is at right angles to the run before it, so a       *)
(* route never reverses, never goes further than the longest run in one    *)
(* direction, and an Ultra route turns or stops only after 4 moves.  Its   *)
(* cost is the heat loss of every block it enters.  RouteCost is the       *)
(* least cost of a route between two positions, found by relaxing to a     *)
(* fixed point the cost of standing at a position about to begin a run in  *)
(* a direction.                                                            *)

Opposite(dir) ==
    CASE dir = "North" -> "South" [] dir = "South" -> "North"
      [] dir = "East"  -> "West"  [] dir = "West"  -> "East"

MaxRun(cr) == IF cr = "Small" THEN 3 ELSE 10

\* The lengths a run may have.
TurnRuns(cr) == IF cr = "Small" THEN 1..3 ELSE 4..10

\* The position n moves from p in direction dir (n < 0: behind p).
Ahead(p, dir, n) ==
    CASE dir = "North" -> Position(p.x, p.y - n)
      [] dir = "East"  -> Position(p.x + n, p.y)
      [] dir = "South" -> Position(p.x, p.y + n)
      [] dir = "West"  -> Position(p.x - n, p.y)

RECURSIVE RunLoss(_, _, _, _)
\* The heat loss of the n blocks a run from p in direction dir enters.
RunLoss(self, p, dir, n) ==
    IF n = 0 THEN 0
    ELSE self.blocks[Ahead(p, dir, n)].heat_loss + RunLoss(self, p, dir, n - 1)

\* The runs that end at position p: <<where it began, its direction, its
\* length>>, among the directions dirs.
RunsInto(self, p, cr, dirs) ==
    {r \in {<<Ahead(p, d, -n), d, n>> : d \in dirs, n \in TurnRuns(cr)} :
        r[1] \in DOMAIN self.blocks}

RECURSIVE Settle(_, _, _)
\* cost[a]: the least cost found of standing at a.pos about to begin a run
\* in direction a.dir.
Settle(self, cr, cost) ==
    LET next ==
          [a \in DOMAIN cost |->
             least({cost[a]} \cup
                   {cost[[pos |-> r[1], dir |-> r[2]]]
                        + RunLoss(self, r[1], r[2], r[3]) :
                      r \in {q \in RunsInto(self, a.pos, cr,
                                 Direction \ {a.dir, Opposite(a.dir)}) :
                               cost[[pos |-> q[1], dir |-> q[2]]] # U32_MAX}})]
    IN  IF next = cost THEN cost ELSE Settle(self, cr, next)

\* The directions of the first moves lines 142-149 seed (C13).
SeededDirs == {"East", "South", "West"}

\* The least cost of standing at each position about to begin a run in each
\* direction, for routes from `from` whose first run goes in one of dirs.
BeginCosts(self, from, cr, dirs) ==
    Settle(self, cr,
           [a \in [pos : DOMAIN self.blocks, dir : Direction] |->
               IF a.pos = from /\ a.dir \in dirs THEN 0 ELSE U32_MAX])

\* The least cost of ending a run at `to`, given the costs of beginning one.
ArrivalCost(self, to, cr, cost) ==
    least({U32_MAX} \cup
          {cost[[pos |-> r[1], dir |-> r[2]]]
               + RunLoss(self, r[1], r[2], r[3]) :
             r \in {q \in RunsInto(self, to, cr, Direction) :
                      cost[[pos |-> q[1], dir |-> q[2]]] # U32_MAX}})

\* The least cost of a legal route from `from` to `to` whose first run goes
\* in one of the directions dirs; U32_MAX when there is none.
RouteCost(self, from, to, cr, dirs) ==
    ArrivalCost(self, to, cr, BeginCosts(self, from, cr, dirs))

\* The least costs of a call: over every legal route (any), and over those
\* whose first move goes East, South or West (seeded), with the costs of
\* beginning a run the latter rest on (begin).  From the top row no first
\* move goes North, and any and seeded are one.
LeastCosts(self, from, to, cr) ==
    LET begin == BeginCosts(self, from, cr, SeededDirs)
        seeded == ArrivalCost(self, to, cr, begin)
    IN  [any    |-> IF from.y = 0 THEN seeded
                    ELSE RouteCost(self, from, to, cr, Direction),
         seeded |-> seeded,
         begin  |-> begin]

---------------------------------------------------------------------------
(* The calls of navigate the model explores.                               *)

PositionsOf(lines) ==
    {Position(x, y) : x \in 0..(Len(lines[1]) - 1), y \in 0..(Len(lines) - 1)}

\* Every grid of these <<width, height>> with cells costing 0..MaxHeat is
\* searched from every start to every goal under both crucibles.
SmallShapes == {<<1, 1>>, <<2, 1>>, <<1, 2>>, <<2, 2>>, <<5, 1>>, <<1, 5>>}

AllGrids == UNION {[1..sh[2] -> [1..sh[1] -> 0..MaxHeat]] : sh \in SmallShapes}

Call(lines, from, to, cr, order) ==
    [lines |-> lines, start |-> from, goal |-> to, crucible |-> cr,
     tie |-> order]

\* main.rs: from the top-left block to the bottom-right one.
CornerCall(lines, cr, order) ==
    Call(lines, Position(0, 0),
         Position(Len(lines[1]) - 1, Len(lines) - 1), cr, order)

CallsOn(lines, order) ==
    {Call(lines, s, t, cr, order) :
        s \in PositionsOf(lines), t \in PositionsOf(lines), cr \in Crucible}

\* The calls on each grid, one set per grid.
ExhaustiveCalls == {CallsOn(g, "any") : g \in AllGrids}

\* families: sets of calls; navigate is entered with any call of any of
\* them.
InitOf(families) ==
    \E calls \in families : \E c \in calls :
        /\ well_formed(c.lines)
        /\ city = from_stream(c.lines)
        /\ start = c.start
        /\ goal = c.goal
        /\ crucible = c.crucible
        /\ tie = c.tie
        /\ pc = "navigate"
        /\ open_set = EmptyBag
        /\ queued = {}
        /\ came_from = EmptyMap
        /\ losses = EmptyMap
        /\ best_state = None
        /\ best_loss = U32_MAX
        /\ path = <<>>
        /\ panic_line = 0
        /\ least_cost = LeastCosts(from_stream(c.lines), c.start, c.goal,
                                    c.crucible)

\* The 13x13 city of tests::navigate_small and tests::navigate_ultra1.
Example13 ==
    <<<<2, 4, 1, 3, 4, 3, 2, 3, 1, 1, 3, 2, 3>>,
      <<3, 2, 1, 5, 4, 5, 3, 5, 3, 5, 6, 2, 3>>,
      <<3, 2, 5, 5, 2, 4, 5, 6, 5, 4, 2, 5, 4>>,
      <<3, 4, 4, 6, 5, 8, 5, 8, 4, 5, 4, 5, 2>>,
      <<4, 5, 4, 6, 6, 5, 7, 8, 6, 7, 5, 3, 6>>,
      <<1, 4, 3, 8, 5, 9, 8, 7, 9, 8, 4, 5, 4>>,
      <<4, 4, 5, 7, 8, 7, 6, 9, 8, 7, 7, 6, 6>>,
      <<3, 6, 3, 7, 8, 7, 7, 9, 7, 9, 6, 5, 3>>,
      <<4, 6, 5, 4, 9, 6, 7, 9, 8, 6, 8, 8, 7>>,
      <<4, 5, 6, 4, 6, 7, 9, 9, 8, 6, 4, 5, 3>>,
      <<1, 2, 2, 4, 6, 8, 6, 8, 6, 5, 5, 6, 3>>,
      <<2, 5, 4, 6, 5, 4, 8, 8, 8, 7, 7, 3, 5>>,
      <<4, 3, 2, 2, 6, 7, 4, 6, 5, 5, 5, 3, 3>>>>

\* The 12x5 city of tests::navigate_ultra2.
Example12x5 ==
    <<<<1, 1, 1, 1, 1, 1, 1, 1, 1, 1, 1, 1>>,
      <<9, 9, 9, 9, 9, 9, 9, 9, 9, 9, 9, 1>>,
      <<9, 9, 9, 9, 9, 9, 9, 9, 9, 9, 9, 1>>,
      <<9, 9, 9, 9, 9, 9, 9, 9, 9, 9, 9, 1>>,
      <<9, 9, 9, 9, 9, 9, 9, 9, 9, 9, 9, 1>>>>

\* A detour forced by the Small crucible's three steps in a row.
Zigzag5x2 == <<<<1, 1, 1, 1, 1>>,
      <<9, 9, 9, 1, 1>>>>

\* Free blocks: losses that tie, and relaxations that gain nothing.
Free3x3 == <<<<1, 0, 1>>,
      <<0, 9, 0>>,
      <<1, 0, 1>>>>

\* The cheapest first move from the middle goes North.
Middle3x3 == <<<<1, 9, 1>>,
      <<1, 1, 1>>,
      <<9, 1, 1>>>>

Strip4x2 == <<<<2, 4, 1, 3>>,
      <<3, 2, 1, 5>>>>

\* The smallest city an Ultra crucible can cross with a turn.
Ring5x5 ==
    <<<<0, 1, 1, 1, 1>>,
      <<1, 9, 9, 9, 1>>,
      <<1, 9, 9, 9, 1>>,
      <<1, 9, 9, 9, 1>>,
      <<1, 1, 1, 1, 0>>>>

Ring6x6 ==
    <<<<2, 1, 1, 1, 1, 1>>,
      <<1, 9, 9, 9, 9, 1>>,
      <<1, 9, 9, 9, 9, 1>>,
      <<1, 9, 9, 9, 9, 1>>,
      <<1, 9, 9, 9, 9, 1>>,
      <<1, 1, 1, 1, 1, 2>>>>

\* Several Ultra routes: along the top, down the middle, or both.
Bridge9x5 ==
    <<<<1, 1, 1, 1, 1, 1, 1, 1, 1>>,
      <<9, 9, 9, 9, 1, 9, 9, 9, 1>>,
      <<9, 9, 9, 9, 1, 9, 9, 9, 1>>,
      <<9, 9, 9, 9, 1, 9, 9, 9, 1>>,
      <<9, 9, 9, 9, 1, 1, 1, 1, 1>>>>

\* The cheap way turns after three moves: no Ultra crucible may take it.
Gate8x5 ==
    <<<<0, 1, 1, 1, 9, 9, 9, 9>>,
      <<9, 9, 9, 1, 9, 9, 9, 9>>,
      <<9, 9, 9, 1, 9, 9, 9, 9>>,
      <<9, 9, 9, 1, 9, 9, 9, 9>>,
      <<9, 9, 9, 1, 1, 1, 1, 1>>>>

\* Four free blocks in a square: a round trip that costs nothing.
Pool3x2 == <<<<0, 0, 1>>,
      <<0, 0, 1>>>>

\* Every block costs the same.
Uniform5x2 == <<<<1, 1, 1, 1, 1>>,
      <<1, 1, 1, 1, 1>>>>

Uniform5x5 == <<<<1, 1, 1, 1, 1>>,
      <<1, 1, 1, 1, 1>>,
      <<1, 1, 1, 1, 1>>,
      <<1, 1, 1, 1, 1>>,
      <<1, 1, 1, 1, 1>>>>

\* Larger cities, searched under every order of popping equal distances.
ChosenCalls ==
    {CornerCall(Zigzag5x2, "Small", "any"),
     Call(Uniform5x2, Position(0, 0), Position(4, 0), "Small", "any"),
     Call(Uniform5x2, Position(0, 0), Position(4, 0), "Ultra", "any"),
     CornerCall(Uniform5x5, "Small", "lo"),
     CornerCall(Uniform5x5, "Ultra", "any"),
     CornerCall(Pool3x2, "Small", "any"),
     CornerCall(Free3x3, "Small", "any"),
     CornerCall(Strip4x2, "Small", "any"),
     Call(Middle3x3, Position(1, 1), Position(1, 0), "Small", "any"),
     CornerCall(Ring5x5, "Ultra", "any"),
     Call(Ring5x5, Position(0, 4), Position(4, 0), "Ultra", "any"),
     CornerCall(Ring6x6, "Ultra", "any"),
     CornerCall(Bridge9x5, "Ultra", "any"),
     CornerCall(Gate8x5, "Ultra", "any"),
     CornerCall(Example12x5, "Ultra", "lo"),
     CornerCall(Example12x5, "Ultra", "hi")}

\* The worked examples of the tests, under the two fixed orders.
WorkedCalls ==
    {CornerCall(Example13, cr, order) :
        cr \in Crucible, order \in {"lo", "hi"}}

Init == InitOf(ExhaustiveCalls \cup {ChosenCalls})

InitWorked == InitOf({ChosenCalls, WorkedCalls})

Next == Seed \/ Step \/ Return

---------------------------------------------------------------------------
(* navigate without the queued set: lines 196-203 push a relaxed neighbour *)
(* exactly when losses had no entry for it before line 194.                 *)

\* Lines 189-204 of the variant, for one neighbour.
relax_unqueued(m, neighbor, curr_state, curr_loss, bound, self, to) ==
    LET neighbor_loss == curr_loss + self.blocks[neighbor.pos].heat_loss
        seen == neighbor \in DOMAIN m.losses
        prev_neighbor_loss == IF seen THEN m.losses[neighbor] ELSE U32_MAX
    IN  IF improves(neighbor_loss, bound, prev_neighbor_loss)
        THEN [came_from |-> insert(m.came_from, neighbor, curr_state),
              losses    |-> insert(m.losses, neighbor, neighbor_loss),
              open_set  |-> IF seen THEN m.open_set
                            ELSE heap_push(m.open_set,
                                     Candidate(neighbor,
                                         l1_distance(neighbor.pos, to))),
              queued    |-> m.queued]
        ELSE m

RECURSIVE relax_all_unqueued(_, _, _, _, _, _, _, _)
relax_all_unqueued(m, neighbors, i, curr_state, curr_loss, bound, self, to) ==
    IF i > Len(neighbors) THEN m
    ELSE relax_all_unqueued(
             relax_unqueued(m, neighbors[i], curr_state, curr_loss, bound,
                            self, to),
             neighbors, i + 1, curr_state, curr_loss, bound, self, to)

\* One iteration of the variant's loop: Step with relax_unqueued, and no
\* queued set to keep.
StepUnqueued ==
    /\ pc = "loop"
    /\ open_set # EmptyBag
    /\ \E curr \in heap_top(city, open_set, tie) :
        LET neighbors == valid_moves(city, curr.state, crucible)
            curr_loss == losses[curr.state]
            hit == accepts(curr.state, curr_loss, best_loss, goal, crucible)
            bound == IF hit THEN curr_loss ELSE best_loss
            m0 == [open_set  |-> heap_remove(open_set, curr),
                   queued    |-> {},
                   came_from |-> came_from,
                   losses    |-> losses]
            m == relax_all_unqueued(m0, neighbors, 1, curr.state, curr_loss,
                                    bound, city, goal)
        IN  /\ best_state' = IF hit THEN Some(curr.state) ELSE best_state
            /\ best_loss' = bound
            /\ open_set' = m.open_set
            /\ queued' = m.queued
            /\ came_from' = m.came_from
            /\ losses' = m.losses
    /\ UNCHANGED <<city, start, goal, crucible, tie, path, least_cost,
                   pc, panic_line>>

NextUnqueued == Seed \/ StepUnqueued \/ Return

SpecUnqueued == Init /\ [][NextUnqueued]_vars

Spec == Init /\ [][Next]_vars

SpecWorked == InitWorked /\ [][Next]_vars

\* The grids in which a route can come back to a block: those of up to 2x2
\* blocks, with the chosen cities searched in any order.
InitLive ==
    InitOf({CallsOn(g, "any") :
               g \in UNION {[1..sh[2] -> [1..sh[1] -> 0..MaxHeat]] :
                              sh \in {t \in SmallShapes : t[1] + t[2] <= 4}}}
           \cup {{c \in ChosenCalls : c.tie = "any"}})

\* navigate runs on one thread, from line 142 to line 208 without waiting
\* on anything: while a step is enabled, one is taken.
SpecLive == InitLive /\ [][Next]_vars /\ WF_vars(Next)

---------------------------------------------------------------------------
(* navigate with a frontier that pops its candidates in any order.         *)

\* One iteration of the variant's loop: Step, but line 173 pops any
\* candidate of the frontier.
StepAnyOrder ==
    /\ pc = "loop"
    /\ open_set # EmptyBag
    /\ \E curr \in BagToSet(open_set) :
        LET neighbors == valid_moves(city, curr.state, crucible)
        IN  IF curr.state \notin DOMAIN losses
            THEN /\ pc' = "panicked"
                 /\ panic_line' = 176
                 /\ open_set' = heap_remove(open_set, curr)
                 /\ queued' = queued \ {curr.state}
                 /\ UNCHANGED <<came_from, losses, best_state, best_loss>>
            ELSE LET curr_loss == losses[curr.state]
                     hit == accepts(curr.state, curr_loss, best_loss, goal,
                                    crucible)
                     bound == IF hit THEN curr_loss ELSE best_loss
                     m0 == [open_set  |-> heap_remove(open_set, curr),
                            queued    |-> queued \ {curr.state},
                            came_from |-> came_from,
                            losses    |-> losses]
                 IN  /\ best_state' =
                            IF hit THEN Some(curr.state) ELSE best_state
                     /\ best_loss' = bound
                     /\ IF \E n \in elements(neighbors) :
                                n.pos \notin DOMAIN city.blocks
                        THEN /\ pc' = "panicked"
                             /\ panic_line' = 189
                             /\ open_set' = m0.open_set
                             /\ queued' = m0.queued
                             /\ UNCHANGED <<came_from, losses>>
                        ELSE LET m == relax_all(m0, neighbors, 1, curr.state,
                                                curr_loss, bound, city, goal)
                             IN  /\ open_set' = m.open_set
                                 /\ queued' = m.queued
                                 /\ came_from' = m.came_from
                                 /\ losses' = m.losses
                                 /\ UNCHANGED <<pc, panic_line>>
    /\ UNCHANGED <<city, start, goal, crucible, tie, path, least_cost>>

NextAnyOrder == Seed \/ StepAnyOrder \/ Return

\* A dear block on the straight way: the cheap route goes round it.
Detour3x2 == <<<<1, 9, 1>>,
               <<1, 1, 1>>>>

\* The calls of the variant, few enough for every order of the pops to be
\* followed: every call on the grids of SmallShapes, the corner-to-corner
\* call of a Small crucible on every 3x2 grid whose start block is free,
\* and chosen cities.
InitAnyOrder ==
    InitOf(ExhaustiveCalls \cup
           {{CornerCall(g, "Small", "any") :
                g \in {h \in [1..2 -> [1..3 -> 0..MaxHeat]] : h[1][1] = 0}},
            {CornerCall(Detour3x2, "Small", "any"),
             CornerCall(Zigzag5x2, "Ultra", "any"),
             CornerCall(Uniform5x5, "Ultra", "any"),
             Call(Uniform5x2, Position(0, 0), Position(4, 0), "Ultra", "any")}})

SpecAnyOrder == InitAnyOrder /\ [][NextAnyOrder]_vars

---------------------------------------------------------------------------
(* Reading a finished call.                                                *)

Running == pc \in {"navigate", "loop"}

Corner(self) == Position(self.width - 1, self.height - 1)

CornerToCorner == start = Position(0, 0) /\ goal = Corner(city)

(* The returned path as moves. *)

\* start followed by the positions of the returned blocks.
Cells == <<start>> \o [i \in 1..Len(path) |-> path[i].pos]

\* Move i leads from Cells[i] to Cells[i + 1].
OneStep(i) == l1_distance(Cells[i], Cells[i + 1]) = 1

MoveDir(i) == CHOOSE d \in Direction : Position_mv(Cells[i], d) = Cells[i + 1]

RECURSIVE RunAt(_)
\* How many moves in a row, move i the last of them, go in move i's direction.
RunAt(i) ==
    IF i > 1 /\ MoveDir(i - 1) = MoveDir(i) THEN RunAt(i - 1) + 1 ELSE 1

---------------------------------------------------------------------------
(* The claims.                                                             *)

\* C1: whenever a legal route from start to a stop at goal exists, whose
\* first move may go in any of the four directions that stay in the city,
\* navigate returns a path whose total heat loss is the least total cost of
\* such a route.
C1_LeastOverAllRoutes ==
    (~Running /\ least_cost.any # U32_MAX)
        => pc = "returned" /\ total_loss(path) = least_cost.any

\* C2: Small crucible, from the top-left block to the bottom-right one: the
\* total heat loss of the returned path is the least over all legal Small
\* routes, and 102 in the 13x13 city of the tests, where the call returns.
C2_SmallCornerOptimal ==
    /\ (~Running /\ crucible = "Small" /\ city = from_stream(Example13))
            => pc = "returned"
    /\ (pc = "returned" /\ crucible = "Small" /\ CornerToCorner)
        => /\ total_loss(path) = least_cost.any
           /\ city = from_stream(Example13) => total_loss(path) = 102

\* A Small crucible crossed the 5x2 city, which takes a detour of its own:
\* four moves East in a row are not allowed.
C2_Witness ==
    /\ pc = "returned" /\ crucible = "Small" /\ CornerToCorner
    /\ city = from_stream(Zigzag5x2)
    /\ Len(path) = 5
    /\ total_loss(path) = 5

\* C3: Ultra crucible, from the top-left block to the bottom-right one: the
\* total heat loss of the returned path is the least over all legal Ultra
\* routes that reach the goal after a run of at least 4; it is 94 in the
\* 13x13 city, where the call returns, and 71 in the 12x5 city of the tests.
C3_UltraCornerOptimal ==
    /\ (~Running /\ crucible = "Ultra" /\ city = from_stream(Example13))
            => pc = "returned"
    /\ (pc = "returned" /\ crucible = "Ultra" /\ CornerToCorner)
        => /\ total_loss(path) = least_cost.any
           /\ city = from_stream(Example13) => total_loss(path) = 94
           /\ city = from_stream(Example12x5) => total_loss(path) = 71

\* An Ultra crucible crossed the 12x5 city of the tests.
C3_Witness ==
    /\ pc = "returned" /\ crucible = "Ultra" /\ CornerToCorner
    /\ city = from_stream(Example12x5)
    /\ total_loss(path) = 71

\* C4: the total cost navigate returns is a function of the city, start,
\* goal and crucible alone: whichever candidates of equal distance the
\* frontier pops first, a run ends with the least cost of a route whose
\* first move is one navigate seeds (East, South or West), and panics
\* exactly when there is no such route.
C4_CostDeterministic ==
    ~Running =>
        IF least_cost.seeded = U32_MAX THEN pc = "panicked"
        ELSE pc = "returned" /\ total_loss(path) = least_cost.seeded

\* A path was returned by a search, free in its order of popping, that
\* relaxed two states equally far from the goal.
C4_Witness ==
    /\ pc = "returned"
    /\ tie = "any"
    /\ \E s \in DOMAIN losses, t \in DOMAIN losses :
          /\ s # t
          /\ l1_distance(s.pos, goal) = l1_distance(t.pos, goal)
          /\ s \in DOMAIN came_from /\ t \in DOMAIN came_from
    /\ total_loss(path) > 0

\* C5: when navigate returns, the heat losses of the reconstructed path sum
\* to best_loss, which is the losses entry of the best state.
C5_PathSumsToBestLoss ==
    pc = "returned" =>
        /\ total_loss(path) = best_loss
        /\ best_loss = losses[unwrap(best_state)]

\* A path of several blocks, one of them entered with a positive loss.
C5_Witness ==
    pc = "returned" /\ Len(path) >= 3 /\ best_loss >= 2

\* C6: in start followed by the returned path, consecutive cells are one
\* orthogonal step apart, no move reverses the move before it, and at most
\* 3 (Small) or 10 (Ultra) moves in a row go in one direction.
C6_PathIsLegal ==
    pc = "returned" =>
        /\ \A i \in 1..Len(path) : OneStep(i)
        /\ \A i \in 2..Len(path) : MoveDir(i) # Opposite(MoveDir(i - 1))
        /\ \A i \in 1..Len(path) : RunAt(i) <= MaxRun(crucible)

\* A returned path with a full run of the crucible and a turn.
C6_Witness ==
    /\ pc = "returned"
    /\ \E i \in 1..Len(path) : RunAt(i) = MaxRun(crucible)
    /\ \E i \in 2..Len(path) : MoveDir(i) # MoveDir(i - 1)

\* C7: under the Ultra crucible every run of the returned path that a turn
\* ends is at least 4 moves long, and so is its last run, which ends at the
\* goal.
C7_UltraRunsAtLeastFour ==
    (pc = "returned" /\ crucible = "Ultra") =>
        \A i \in 1..Len(path) :
            (i = Len(path) \/ MoveDir(i + 1) # MoveDir(i)) => RunAt(i) >= 4

\* An Ultra path that turns.
C7_Witness ==
    /\ pc = "returned" /\ crucible = "Ultra"
    /\ \E i \in 2..Len(path) : MoveDir(i) # MoveDir(i - 1)

\* C8: when the frontier empties and no terminal state was recorded,
\* navigate ends with a result handed to its caller; it does not panic.
C8_NotFoundIsAResult ==
    (~Running /\ best_state = None) => pc # "panicked"

\* C9: in a city of one block, with start = goal = (0,0), navigate returns
\* the empty path, of total cost 0, under both crucibles.
C9_OneBlockCity ==
    (~Running /\ city.width = 1 /\ city.height = 1)
        => pc = "returned" /\ path = <<>> /\ total_loss(path) = 0

\* C10: the returned path is not empty, its first block is the one the
\* first move enters, next to start, its last block is the goal, each of
\* its blocks is the city's block at that position, and start is not put in
\* front of it: the path has one block per move.
C10_PathEnds ==
    pc = "returned" =>
        /\ path # <<>>
        /\ l1_distance(start, path[1].pos) = 1
        /\ path[Len(path)].pos = goal
        /\ \A i \in 1..Len(path) : path[i] = city.blocks[path[i].pos]
        /\ Len(path) = Len(chain(came_from, unwrap(best_state),
                                 Cardinality(DOMAIN came_from)))

\* A returned route that comes back to the block it started from.
C10_Witness ==
    /\ pc = "returned"
    /\ start = goal
    /\ Len(path) >= 4
    /\ path[Len(path)].pos = start

\* C11: the search loop ends in every city, free (zero-cost) blocks
\* included, from every start to every goal under both crucibles: after
\* finitely many pops the frontier is empty.
C11_LoopTerminates == <>(pc # "navigate" /\ open_set = EmptyBag)

\* The frontier emptied in the city with the free square, after the search
\* came back to its start for nothing: a round trip of cost 0.
C11_Witness ==
    /\ pc = "returned"
    /\ open_set = EmptyBag
    /\ city = from_stream(Pool3x2)
    /\ \E s \in DOMAIN came_from : s.pos = start /\ losses[s] = 0

(* Uniform cities, and the other crucible. *)

Uniform(self) ==
    \A p \in DOMAIN self.blocks, q \in DOMAIN self.blocks :
        self.blocks[p].heat_loss = self.blocks[q].heat_loss

\* The total navigate returns for this city, start and goal under crucible
\* cr (C4); U32_MAX when it returns none.
SeededCost(cr) == LeastCosts(city, start, goal, cr).seeded

\* The cost of a route with no detour in a uniform city.
DirectCost ==
    city.blocks[start].heat_loss * l1_distance(start, goal)

\* C12 (as stated): in a uniform city, where both crucibles get from start
\* to goal, the total under the Ultra crucible is never less than the total
\* under the Small crucible.
C12_UltraNeverBelowSmall ==
    (pc = "returned" /\ Uniform(city)) =>
        IF crucible = "Ultra"
        THEN SeededCost("Small") # U32_MAX
                => total_loss(path) >= SeededCost("Small")
        ELSE total_loss(path) <= SeededCost("Ultra")

\* C12 (amended): in a uniform city the total under the Ultra crucible is
\* never less than the total under the Small crucible for the same start
\* and goal, whenever the Small crucible gets there without a detour (its
\* total is the cost of a block times the distance from start to goal).
C12_UltraNeverBelowDirectSmall ==
    (pc = "returned" /\ Uniform(city)) =>
        IF crucible = "Ultra"
        THEN SeededCost("Small") = DirectCost
                => total_loss(path) >= SeededCost("Small")
        ELSE total_loss(path) = DirectCost
                => total_loss(path) <= SeededCost("Ultra")

\* An Ultra crucible crossed the uniform 5x5 city, which a Small crucible
\* crosses without a detour: both pay 8.
C12_Witness ==
    /\ pc = "returned" /\ crucible = "Ultra"
    /\ Uniform(city) /\ city.blocks[start].heat_loss = 1
    /\ SeededCost("Small") = DirectCost
    /\ total_loss(path) = 8

\* The first moves that stay in the city: one in each direction whose
\* adjacent block exists.
FirstMoves ==
    {State(Ahead(start, d, 1), d, 1) :
        d \in {e \in Direction : Ahead(start, e, 1) \in DOMAIN city.blocks}}

\* C13: under either crucible the frontier is seeded with exactly one state
\* for each of the four directions whose adjacent block is in the city,
\* whatever the run a crucible needs before it turns; each has run-length 1
\* and, as its best cost, the heat loss of the block it enters.
C13_SeedsFourDirections ==
    [][Seed =>
        /\ pc' = "loop"
        /\ queued' = FirstMoves
        /\ BagToSet(open_set') =
              {Candidate(s, l1_distance(s.pos, goal)) : s \in FirstMoves}
        /\ \A c \in BagToSet(open_set') : CopiesIn(c, open_set') = 1
        /\ losses' = [s \in FirstMoves |-> city.blocks[s.pos].heat_loss]
     ]_vars

(* valid_moves as a function of a state. *)

\* The states valid_moves is read on: during a search, the pending states,
\* which the loop expands next; before a search from corner to corner,
\* every state of the city with a run of 1..runs (valid_moves reads neither
\* start nor goal: one call for each city and crucible reads them all).
Probed(runs) ==
    IF pc = "navigate"
    THEN IF CornerToCorner
         THEN {State(p, d, n) : p \in DOMAIN city.blocks, d \in Direction,
                                n \in 1..runs}
         ELSE {}
    ELSE {s \in queued : s.steps \in 1..runs}

\* The directions of the successors valid_moves returns for s.
MoveDirs(s) == {n.dir : n \in elements(valid_moves(city, s, crucible))}

InCity(p) == p.x \in 0..(city.width - 1) /\ p.y \in 0..(city.height - 1)

Perpendicular(d) == Direction \ {d, Opposite(d)}

\* C14: for a state with a run of 1 or more, under either crucible,
\* valid_moves returns no successor that goes back the way the state came,
\* and none whose position is outside the city.
C14_NoReversalNoExit ==
    \A s \in Probed(MaxRun("Ultra") + 1) :
        \A n \in elements(valid_moves(city, s, crucible)) :
            /\ n.dir # Opposite(s.dir)
            /\ InCity(n.pos)

\* A pending state in a corner of the city, with a way on.
C14_Witness ==
    /\ pc = "loop"
    /\ \E s \in queued :
          /\ s.pos = Corner(city)
          /\ s.steps >= 2
          /\ Cardinality(MoveDirs(s)) = 1

\* C15: under the Small crucible, for a state with a run of n in 1..3, the
\* successors go in exactly the directions that stay in the city among the
\* two perpendicular ones and, if and only if n < 3, the state's own.
C15_SmallDirections ==
    crucible = "Small" =>
        \A s \in Probed(3) :
            /\ MoveDirs(s) =
                  {d \in Perpendicular(s.dir) \cup
                          (IF s.steps < 3 THEN {s.dir} ELSE {}) :
                      InCity(Ahead(s.pos, d, 1))}
            /\ \A n \in elements(valid_moves(city, s, crucible)) :
                  n.pos = Ahead(s.pos, n.dir, 1)

\* A pending Small state after three moves in a row, with room ahead: it
\* may only turn.
C15_Witness ==
    /\ pc = "loop" /\ crucible = "Small"
    /\ \E s \in queued :
          /\ s.steps = 3
          /\ InCity(Ahead(s.pos, s.dir, 1))
          /\ MoveDirs(s) # {}
          /\ s.dir \notin MoveDirs(s)

\* C16: under the Ultra crucible, for a state with a run of n in 1..10, the
\* successors go in exactly the directions that stay in the city among the
\* two perpendicular ones if and only if n >= 4 and the state's own if and
\* only if n < 10.
C16_UltraDirections ==
    crucible = "Ultra" =>
        \A s \in Probed(10) :
            /\ MoveDirs(s) =
                  {d \in (IF s.steps >= 4 THEN Perpendicular(s.dir) ELSE {})
                          \cup (IF s.steps < 10 THEN {s.dir} ELSE {}) :
                      InCity(Ahead(s.pos, d, 1))}
            /\ \A n \in elements(valid_moves(city, s, crucible)) :
                  n.pos = Ahead(s.pos, n.dir, 1)

\* Pending Ultra states: one after ten moves in a row with room ahead, which
\* may only turn, and one after three, with room aside, which may only go
\* on.
C16_Witness ==
    /\ pc = "loop" /\ crucible = "Ultra"
    /\ \E s \in queued :
          /\ s.steps = 10
          /\ InCity(Ahead(s.pos, s.dir, 1))
          /\ MoveDirs(s) # {}
          /\ s.dir \notin MoveDirs(s)
    /\ \E s \in queued :
          /\ s.steps = 3
          /\ \E d \in Perpendicular(s.dir) : InCity(Ahead(s.pos, d, 1))
          /\ MoveDirs(s) = {s.dir}

\* Every state navigate holds: in the frontier, pending, with a best cost,
\* or on either side of a predecessor link.
Stored ==
    queued \cup {c.state : c \in BagToSet(open_set)} \cup DOMAIN losses
        \cup DOMAIN came_from \cup {came_from[s] : s \in DOMAIN came_from}

\* C17: a successor has run-length 1 when its direction differs from its
\* predecessor's and the predecessor's run-length plus 1 otherwise; so every
\* state in the frontier, the best-cost map or the predecessor map is in
\* the city with a run-length of 1..3 (Small) or 1..10 (Ultra), and
\* run-length 0 is the pre-start state's alone.
C17_RunLengths ==
    /\ \A s \in DOMAIN came_from :
          /\ s.steps = IF s.dir = came_from[s].dir
                       THEN came_from[s].steps + 1 ELSE 1
          /\ s.pos = Ahead(came_from[s].pos, s.dir, 1)
    /\ \A s \in DOMAIN losses \ DOMAIN came_from :
          s.steps = 1 /\ s.pos = Ahead(start, s.dir, 1)
    /\ \A s \in Stored :
          InCity(s.pos) /\ s.steps \in 1..MaxRun(crucible)
    /\ pre_start(start).steps = 0

\* An Ultra search that holds a state at the end of a run of 10, a state
\* that went on after a run of 4, and a state that turned.
C17_Witness ==
    /\ crucible = "Ultra" /\ ~Running
    /\ \E s \in DOMAIN came_from : s.steps = 10
    /\ \E s \in DOMAIN came_from :
          s.steps = 5 /\ came_from[s].dir = s.dir
    /\ \E s \in DOMAIN came_from :
          s.steps = 1 /\ came_from[s].dir # s.dir /\ came_from[s].steps >= 4

\* The terminal predicate: at the goal, after a run of 4 if the crucible is
\* Ultra.
Terminal(s) == s.pos = goal /\ (crucible = "Small" \/ s.steps >= 4)

\* C18: the best terminal state is recorded only in a step that pops it,
\* when it is at the goal, the crucible is Small or its run-length is at
\* least 4, and its best cost is at most the bound, which becomes that
\* cost.  So the bound never increases, it is u32::MAX as long as no state
\* is recorded, and the recorded state is terminal.
C18_BestOnlyWhenAccepted ==
    [][/\ best_loss' <= best_loss
       /\ best_state' = None => best_loss' = U32_MAX
       /\ best_state' # None => Terminal(unwrap(best_state'))
       /\ (best_state' # best_state \/ best_loss' # best_loss) =>
            \E c \in BagToSet(open_set) :
                /\ CopiesIn(c, open_set') < CopiesIn(c, open_set)
                /\ c.state \in DOMAIN losses
                /\ best_state' = Some(c.state)
                /\ Terminal(c.state)
                /\ losses[c.state] <= best_loss
                /\ best_loss' = losses[c.state]
     ]_vars

\* A search that recorded a terminal state and holds another one, which
\* reached the goal at a greater cost.
C18_Witness ==
    /\ pc = "returned"
    /\ best_loss < U32_MAX
    /\ \E t \in DOMAIN losses :
          /\ Terminal(t)
          /\ t # unwrap(best_state)
          /\ losses[t] > best_loss
          /\ t \notin queued

(* One step of the loop, read from outside. *)

\* The best cost recorded for n; none counts as infinite.
PrevLoss(n) == IF n \in DOMAIN losses THEN losses[n] ELSE U32_MAX

\* The step pops candidate c.
Pops(c) == CopiesIn(c, open_set') < CopiesIn(c, open_set)

\* The step writes something of n: its best cost, its predecessor, its
\* pending mark or a candidate of the frontier.
Writes(n) ==
    \/ n \in DOMAIN losses' /\ (n \notin DOMAIN losses \/ losses'[n] # losses[n])
    \/ /\ n \in DOMAIN came_from'
       /\ (n \notin DOMAIN came_from \/ came_from'[n] # came_from[n])
    \/ n \in queued' \ queued
    \/ \E c \in BagToSet(open_set') :
          c.state = n /\ CopiesIn(c, open_set') > CopiesIn(c, open_set)

\* C19: in a step of the loop the predecessor, best cost and pending mark of
\* a state are written only if it is a neighbour of the popped state whose
\* candidate cost (the popped state's best cost plus the heat loss of the
\* block entered) is strictly less than its previous best cost (none:
\* infinite) and strictly less than the bound; for every other state the
\* best-cost map, predecessor map, queued set and frontier stay as they are.
C19_WritesOnlyWhenBetter ==
    [][pc = "loop" =>
        \A n \in Stored' :
            Writes(n) =>
              \E c \in BagToSet(open_set) :
                /\ Pops(c)
                /\ n \in elements(valid_moves(city, c.state, crucible))
                /\ LET cost == losses[c.state] + city.blocks[n.pos].heat_loss
                   IN  /\ cost < PrevLoss(n)
                       /\ cost < best_loss'
                       /\ losses'[n] = cost
                       /\ came_from'[n] = c.state
                       /\ n \in queued'
     ]_vars

\* A finished search that left a neighbour of one of its states without a
\* best cost (the bound refused it), and a neighbour with a predecessor
\* cheaper than another state it could be entered from.
C19_Witness ==
    /\ pc = "returned"
    /\ \E c \in DOMAIN losses :
          \E n \in elements(valid_moves(city, c, crucible)) :
              n \notin DOMAIN losses
    /\ \E c \in DOMAIN losses :
          \E n \in elements(valid_moves(city, c, crucible)) :
              /\ n \in DOMAIN came_from
              /\ came_from[n] # c
              /\ losses[c] + city.blocks[n.pos].heat_loss > losses[n]
              /\ losses[c] + city.blocks[n.pos].heat_loss < best_loss

\* C20: the best cost of a state never increases during a search: a write
\* puts a strictly smaller value in its place, and no entry is removed.
C20_LossesOnlyDecrease ==
    [][pc = "loop" =>
        \A s \in DOMAIN losses :
            /\ s \in DOMAIN losses'
            /\ losses'[s] <= losses[s]
            /\ Writes(s) => losses'[s] < losses[s]
     ]_vars

\* A best cost was lowered after the state was expanded: a state it led to
\* still holds the cost of the dearer way.
C20_Witness ==
    /\ pc = "loop"
    /\ \E k \in DOMAIN came_from :
          losses[k] > losses[came_from[k]] + city.blocks[k.pos].heat_loss

\* C21: at every boundary between two iterations of the loop, every state T
\* with a predecessor P has the best cost of P plus the heat loss of T's
\* block as its best cost.
C21_LinksCarryLosses ==
    pc = "loop" =>
        \A t \in DOMAIN came_from :
            losses[t] = losses[came_from[t]] + city.blocks[t.pos].heat_loss

\* C22: the search goes on after a terminal state was recorded: the loop is
\* left, for the reconstruction of the path, only with an empty frontier,
\* and a terminal state popped later, with a best cost no greater than the
\* bound, takes the place of the recorded one.
C22_DrainsFrontier ==
    [][pc = "loop" =>
        /\ pc' # "loop" => open_set = EmptyBag /\ open_set' = EmptyBag
        /\ best_state # None =>
              \A c \in BagToSet(open_set) :
                  (/\ Pops(c)
                   /\ Terminal(c.state)
                   /\ losses[c.state] <= best_loss)
                      => /\ best_state' = Some(c.state)
                         /\ best_loss' = losses[c.state]
                         /\ pc' = "loop"
     ]_vars

\* The search is still going on, with states pending, after a second
\* terminal state took the place of the first, which had reached the goal
\* at a greater cost.
C22_Witness ==
    /\ pc = "loop"
    /\ open_set # EmptyBag
    /\ best_state # None
    /\ \E t \in DOMAIN losses \ queued :
          /\ Terminal(t)
          /\ t # unwrap(best_state)
          /\ losses[t] > best_loss

\* The Manhattan distance from the position of s to the goal.
ToGoal(s) == l1_distance(s.pos, goal)

\* C23: every pop takes from the frontier a state whose Manhattan distance
\* to the goal is the least among all pending states; the cost accumulated
\* plays no part: any pending state at that distance may be the one popped.
C23_PopsNearest ==
    [][pc = "loop" =>
        /\ \A c \in BagToSet(open_set) :
              Pops(c) =>
                /\ \A d \in BagToSet(open_set) : ToGoal(c.state) <= ToGoal(d.state)
                /\ \A s \in queued : ToGoal(c.state) <= ToGoal(s)
        /\ (tie = "any" /\ open_set # EmptyBag) =>
              LET nearest == least({ToGoal(s) : s \in queued})
              IN  {c \in BagToSet(open_set) : ToGoal(c.state) = nearest}
                      \subseteq heap_top(city, open_set, tie)
     ]_vars

\* The state about to be popped has a greater best cost than a pending
\* state farther from the goal.
C23_Witness ==
    /\ pc = "loop"
    /\ came_from # EmptyMap
    /\ \E c \in heap_top(city, open_set, tie) :
          \E s \in queued :
              /\ ToGoal(c.state) < ToGoal(s)
              /\ losses[c.state] > losses[s]

\* C24: a relaxed neighbour is pushed only if it is not pending: at every
\* boundary between iterations no state is in the frontier twice, queued is
\* the set of the states in the frontier, and every pending state has a
\* best cost, so that the lookup of line 176 never fails.
C24_QueuedIsFrontier ==
    /\ panic_line # 176
    /\ pc = "loop" =>
          /\ \A c \in BagToSet(open_set) : CopiesIn(c, open_set) = 1
          /\ \A c \in BagToSet(open_set), d \in BagToSet(open_set) :
                c.state = d.state => c = d
          /\ queued = {c.state : c \in BagToSet(open_set)}
          /\ queued \subseteq DOMAIN losses

\* A pending state that two expanded states lead to, each at a cost below
\* the bound: it was relaxed while it was pending or pushed a second time.
C24_Witness ==
    /\ pc = "loop"
    /\ \E s \in queued \cap DOMAIN came_from :
          \E p \in DOMAIN losses \ queued :
              /\ p # came_from[s]
              /\ came_from[s] \notin queued
              /\ s \in elements(valid_moves(city, p, crucible))
              /\ losses[s] < losses[p] + city.blocks[s.pos].heat_loss
              /\ losses[p] + city.blocks[s.pos].heat_loss < best_loss

\* C25: in a rectangular city that is not empty, with start and goal in it,
\* every position looked up in the grid is in the city: the first moves
\* (line 167), the neighbours of a state about to be expanded (line 189) and
\* the states the path is rebuilt from; no grid lookup fails.
C25_LookupsInCity ==
    /\ panic_line \notin {167, 189}
    /\ pc = "navigate" =>
          \A n \in elements(valid_moves(city, pre_start(start), crucible)) :
              n.pos \in DOMAIN city.blocks
    /\ \A s \in queued :
          \A n \in elements(valid_moves(city, s, crucible)) :
              n.pos \in DOMAIN city.blocks
    /\ \A s \in Stored : s.pos \in DOMAIN city.blocks
    /\ pc = "returned" =>
          \A i \in 1..Len(path) : path[i].pos \in DOMAIN city.blocks

\* A path was rebuilt by a search that held states on all four edges of the
\* city, each facing the edge.
C25_Witness ==
    /\ pc = "returned"
    /\ \E s \in DOMAIN losses : s.dir = "North" /\ s.pos.y = 0
    /\ \E s \in DOMAIN losses : s.dir = "West" /\ s.pos.x = 0
    /\ \E s \in DOMAIN losses : s.dir = "East" /\ s.pos.x = city.width - 1
    /\ \E s \in DOMAIN losses : s.dir = "South" /\ s.pos.y = city.height - 1

\* C26: navigate without the queued set, which pushes a relaxed neighbour
\* exactly when it had no best cost before, returns the total cost navigate
\* returns, for every city, start, goal and crucible.
C26_UnqueuedSameCost ==
    ~Running =>
        IF least_cost.seeded = U32_MAX THEN pc = "panicked"
        ELSE pc = "returned" /\ total_loss(path) = least_cost.seeded

\* C26 as the variant behaves: it still finds a route whenever there is one
\* and never returns less than navigate, but it can return more, because a
\* state whose cost is lowered after it was expanded is not expanded again.
C26_UnqueuedNeverCheaper ==
    ~Running =>
        IF least_cost.seeded = U32_MAX THEN pc = "panicked"
        ELSE pc = "returned" /\ total_loss(path) >= least_cost.seeded

C26_Witness ==
    /\ pc = "returned"
    /\ total_loss(path) > least_cost.seeded
    /\ \E t \in DOMAIN came_from :
          losses[t] > losses[came_from[t]] + city.blocks[t.pos].heat_loss

\* The states lines 142-149 seed the frontier with.
Seeds == elements(valid_moves(city, pre_start(start), crucible))

\* C27: at every point of the search the predecessor map has no cycle and
\* no seeded first-move state has a predecessor entry, on cities with
\* zero-cost blocks too; so the walk of reconstruct_path from any recorded
\* state ends, and it ends at a seeded first-move state.
C27_LinksLeadToSeeds ==
    /\ pc # "diverged"
    /\ pc # "navigate" =>
          /\ \A n \in Seeds : n \notin DOMAIN came_from
          /\ \A s \in Stored :
                /\ ~walk_cycles(came_from, s)
                /\ LET states == chain(came_from, s,
                                      Cardinality(DOMAIN came_from))
                   IN  states[Len(states)] \in Seeds

\* An expanded state leads back to a seeded state at exactly the seeded
\* state's cost: only the strict comparison of line 192 keeps the link out.
C27_Witness ==
    /\ pc = "loop"
    /\ \E s \in DOMAIN came_from \ queued :
          \E n \in elements(valid_moves(city, s, crucible)) :
              /\ n \in Seeds
              /\ losses[s] + city.blocks[n.pos].heat_loss = losses[n]

\* No state with a best cost has a legal move that would still pass the
\* guard of line 192; a neighbour without a best cost counts as infinite.
Relaxed ==
    \A p \in DOMAIN losses :
        \A t \in elements(valid_moves(city, p, crucible)) :
            LET cost == losses[p] + city.blocks[t.pos].heat_loss
            IN  PrevLoss(t) <= cost \/ cost >= best_loss

\* C28: a state whose best cost a step of the loop lowers (or sets) is
\* pending after the step, with one candidate in the frontier; the step that
\* pops a state leaves none of its legal moves able to pass the guard with
\* the cost it was popped with; so when the frontier is empty, every state P
\* with a best cost and every legal successor T of P have
\* best-cost(T) <= best-cost(P) + heat_loss(T), or
\* best-cost(P) + heat_loss(T) is at least the final bound.
C28_LoweredIsPending ==
    [][pc = "loop" =>
        /\ \A s \in DOMAIN losses' :
              (s \notin DOMAIN losses \/ losses'[s] < losses[s]) =>
                /\ s \in queued'
                /\ CopiesIn(Candidate(s, l1_distance(s.pos, goal)),
                            open_set') = 1
        /\ \A c \in BagToSet(open_set) :
              Pops(c) =>
                \A t \in elements(valid_moves(city, c.state, crucible)) :
                    LET cost == losses[c.state] + city.blocks[t.pos].heat_loss
                    IN  \/ t \in DOMAIN losses' /\ losses'[t] <= cost
                        \/ cost >= best_loss'
        /\ open_set' = EmptyBag => Relaxed'
     ]_vars

\* A state that led to another was lowered afterwards and is pending again.
C28_Witness ==
    /\ pc = "loop"
    /\ \E t \in DOMAIN came_from :
          /\ came_from[t] \in queued
          /\ losses[t] > losses[came_from[t]] + city.blocks[t.pos].heat_loss

\* The least cost of a legal route that begins with a seeded first move and
\* ends in state s: s.steps moves in direction s.dir after a turn (or the
\* start); U32_MAX when there is none.
MinCost(s) ==
    LET origin == Ahead(s.pos, s.dir, -s.steps)
        a == [pos |-> origin, dir |-> s.dir]
    IN  IF /\ s.steps \in 1..MaxRun(crucible)
           /\ s.pos \in DOMAIN city.blocks
           /\ origin \in DOMAIN city.blocks
           /\ least_cost.begin[a] # U32_MAX
        THEN least_cost.begin[a] + RunLoss(city, origin, s.dir, s.steps)
        ELSE U32_MAX

\* Some legal route reaches each state with a best cost, and none for less.
AtLeastMinCost ==
    \A s \in DOMAIN losses : MinCost(s) # U32_MAX /\ MinCost(s) <= losses[s]

\* C29: at every point of the search every entry of losses is the cost of a
\* legal route from start that begins with a seeded first move: line 167
\* enters the heat loss of a first move's block, and a step of the loop
\* enters only the best cost of the popped state plus the heat loss of the
\* block one of its legal moves enters; no entry is below the least cost of
\* reaching its state.
C29_LossesAreRouteCosts ==
    [][/\ pc = "navigate" =>
             \A n \in DOMAIN losses' :
                 n \in Seeds /\ losses'[n] = city.blocks[n.pos].heat_loss
       /\ pc = "loop" =>
             \A n \in DOMAIN losses' :
                 (n \notin DOMAIN losses \/ losses'[n] # losses[n]) =>
                   \E c \in BagToSet(open_set) :
                     /\ Pops(c)
                     /\ n \in elements(valid_moves(city, c.state, crucible))
                     /\ losses'[n] =
                          losses[c.state] + city.blocks[n.pos].heat_loss
       /\ AtLeastMinCost'
     ]_vars

\* One state holds the least cost of reaching it, another the cost of a
\* dearer route.
C29_Witness ==
    /\ pc = "loop"
    /\ \E s \in DOMAIN came_from : losses[s] = MinCost(s)
    /\ \E s \in DOMAIN came_from : losses[s] > MinCost(s)

\* C30: navigate with a frontier that pops its candidates in any order,
\* under the same acceptance rule and the same guard of line 192, returns
\* the total navigate returns: the least cost over the seeded routes, and
\* the panic of line 208 when there is none.
C30_AnyOrderSameCost ==
    ~Running =>
        /\ pc \in {"returned", "panicked"}
        /\ pc = "panicked" <=> least_cost.seeded = U32_MAX
        /\ pc = "panicked" => panic_line = 208
        /\ pc = "returned" =>
              /\ total_loss(path) = least_cost.seeded
              /\ best_loss = least_cost.seeded

\* A farther first move was popped before the nearest one, which is still
\* pending, and led to a terminal state that was accepted at more than the
\* least cost.
C30_Witness ==
    /\ pc = "loop"
    /\ best_state # None
    /\ best_loss > least_cost.seeded
    /\ \E n \in Seeds \cap queued :
          \E f \in Seeds \ queued : ToGoal(n) < ToGoal(f)

===========================================================================
